---- MODULE Spec2Model ----
(***************************************************************************)
(* PHREG multi-reactor pH controller: the control loop of                  *)
(* phreg_controller.py main() and the helpers of                           *)
(* phreg_multi_reactor_controller.py.                                      *)
(*                                                                         *)
(* Fixed-point units (the Python code uses floats; the model is exact):    *)
(*   pH, pH error        1 = 0.01 pH                                       *)
(*   time, dt            1 = 0.01 s                                        *)
(*   integrator          1 = 0.0001 pH*s   (= error unit * time unit)      *)
(*   commands, signal    1 = 0.0001 %                                      *)
(*                                                                         *)
(* Specifications:                                                         *)
(*   Spec           the control loop of phreg_controller.py                *)
(*   SpecRateLimit  rate_limit on bounded arguments                        *)
(*   SpecPID        a PID object under update and reset calls              *)
(*   SpecSimple     the loop of phreg_multi_reactor_controller.py main     *)
(*   SpecParse      parse_mm44_line and the channel-map update             *)
(***************************************************************************)
EXTENDS Integers, Sequences, FiniteSets, TLC

VARIABLES
    enabled,        \* ReactorCfg.enabled per reactor (configuration)
    mode,           \* args.mode: "split" or "co2_only"
    no_mfc,         \* args.no_mfc
    state,          \* controller state
    alarms,         \* the alarm set
    mm44_list,      \* opened analyzer transports, in port order
    mm44_data,      \* device index -> channel -> last parsed reading
    air_mfc,        \* reactors that have an AIR instrument
    co2_mfc,        \* reactors that have a CO2 instrument
    pids,           \* per-reactor PID state
    co2_cmd,        \* per-reactor CO2 command
    air_cmd,        \* per-reactor AIR command
    last_ph_time,   \* per-reactor time of the last valid pH (0 = never)
    reactor_values, \* per-reactor values built for the dashboard
    clock,          \* time.time()
    last_t,         \* time of the previous iteration's start
    dt,             \* elapsed time used by this iteration
    pc,             \* position in the loop body
    idx,            \* read loop: position in mm44_list (0-based)
    nread,          \* read loop: lines read from the current device
    ri,             \* control loop: position in the reactor list (1-based)
    snapshot,       \* last dashboard snapshot handed to json.dump
    iter,           \* number of completed iterations
    read_failed,    \* a device read raised in the current iteration
    got_valid,      \* reactors whose pH line with a valid value was parsed
                    \* in the current iteration
    mfc_writes,     \* actuator writes attempted in the current iteration
    shutdown_writes,\* CO2=0 writes attempted at shutdown: <<reactor, outcome>>
    closed,         \* analyzer transports closed at shutdown
    rl_new, rl_old, rl_max, rl_out,  \* inputs and result of rate_limit
    pid_s,          \* a PID object on its own: [integrator, prev_err]
    pid_out,        \* value returned by its last update
    pid_n,          \* number of calls made on it
    simple_pids,    \* simple loop: per-reactor PID state
    simple_co2,     \* simple loop: co2_cmd
    simple_air,     \* simple loop: air_cmd
    simple_u,       \* simple loop: last control signal per reactor
    simple_dt,      \* simple loop: args.dt
    simple_ri,      \* simple loop: position in the reactor list (1-based)
    simple_n,       \* simple loop: completed iterations
    simple_done,    \* simple loop: interrupted
    p_raw,          \* one readline outcome handed to the parser
    p_map,          \* a device's channel map before the read
    p_res           \* that channel map after the read

vars == <<enabled, mode, no_mfc, state, alarms, mm44_list, mm44_data,
          air_mfc, co2_mfc, pids, co2_cmd, air_cmd, last_ph_time,
          reactor_values, clock, last_t, dt, pc, idx, nread, ri, snapshot,
          iter, read_failed, got_valid, mfc_writes, shutdown_writes, closed,
          rl_new, rl_old, rl_max, rl_out, pid_s, pid_out, pid_n,
          simple_pids, simple_co2, simple_air, simple_u, simple_dt, simple_ri,
          simple_n, simple_done, p_raw, p_map, p_res>>

cfgvars == <<enabled, mode, no_mfc>>
rlvars == <<rl_new, rl_old, rl_max, rl_out>>
pidvars == <<pid_s, pid_out, pid_n>>
simplevars == <<simple_pids, simple_co2, simple_air, simple_u, simple_dt, simple_ri,
                simple_n, simple_done>>
parsevars == <<p_raw, p_map, p_res>>
mainvars == <<state, alarms, mm44_list, mm44_data, air_mfc, co2_mfc, pids, co2_cmd,
              air_cmd, last_ph_time, reactor_values, clock, last_t, dt, pc, idx, nread,
              ri, snapshot, iter, read_failed, got_valid, mfc_writes, shutdown_writes,
              closed>>
(* the variables of the pure-function specifications *)
fnvars == <<rlvars, pidvars, simplevars, parsevars>>

----------------------------------------------------------------------------
(* Bounds of the model *)

MaxIter == 2        \* times the loop goes round (MaxIter + 1 iterations run)
StartClock == 1     \* time.time() at start-up (positive)
MaxRL == 4          \* rate_limit inputs range over -MaxRL..MaxRL
MaxPidCalls == 3    \* calls made on the PID object taken on its own
MaxSimpleIter == 2  \* times the simple loop goes round
MaxTok == 5         \* tokens of a line handed to the parser on its own

(* Elapsed wall time of one iteration, in 0.01 s *)
Elapsed == {100, 400}

----------------------------------------------------------------------------
(* Optional values: None is <<>>, a present value x is <<x>> *)

None == <<>>
Some(x) == <<x>>

----------------------------------------------------------------------------
(* Constants of the program *)

S_INIT == "INIT"
S_RUN == "RUN"
S_FAILSAFE == "FAILSAFE"
S_DEGRADED == "DEGRADED"

CO2_MIN == 0
CO2_MAX == 1000000
AIR_MIN == 200000
AIR_MAX == 1000000
CO2_RATE_LIMIT_PER_S == 10
AIR_RATE_LIMIT_PER_S == 10
PID_KP == 25
PID_KI == 1
PID_KD == 0
PH_DEADBAND_DEFAULT == 5
MM44_STALE_SEC == 300
IntegratorLimit == 10000000
PidOutMinSplit == -1000000
DtFloor == 1
MaxDrain == 6
PhValidMax == 1400

Reactors == {"R1", "R2", "R3"}
ReactorOrder == <<"R1", "R2", "R3">>

REACTORS_DEFAULT ==
    [r \in Reactors |->
        CASE r = "R1" -> [ph_mm44 |-> 0, ph_ch |-> "C1", do_mm44 |-> 1, do_ch |-> "C2",
                          air_addr |-> 1, co2_addr |-> 2, ph_sp |-> 740, air_baseline |-> 200000]
          [] r = "R2" -> [ph_mm44 |-> 0, ph_ch |-> "C2", do_mm44 |-> 1, do_ch |-> "C3",
                          air_addr |-> 6, co2_addr |-> 5, ph_sp |-> 740, air_baseline |-> 200000]
          [] r = "R3" -> [ph_mm44 |-> 1, ph_ch |-> "C1", do_mm44 |-> 0, do_ch |-> "C3",
                          air_addr |-> 7, co2_addr |-> 4, ph_sp |-> 740, air_baseline |-> 200000]]

----------------------------------------------------------------------------
(* Utility helpers *)

Max(a, b) == IF a >= b THEN a ELSE b
Min(a, b) == IF a <= b THEN a ELSE b
Abs(x) == IF x >= 0 THEN x ELSE -x

clamp(x, lo, hi) == Max(lo, Min(hi, x))

(* rate_limit with the downward branch taken for every negative delta *)
rate_limit_overshoot(new, old, max_delta) ==
    LET delta == new - old IN
    IF delta > max_delta THEN old + max_delta
    ELSE IF delta < 0 THEN old - max_delta
    ELSE new

(* rate_limit stepping from the target instead of from the old value *)
rate_limit_from_new(new, old, max_delta) ==
    LET delta == new - old IN
    IF delta > max_delta THEN new + max_delta
    ELSE IF delta < -max_delta THEN new - max_delta
    ELSE new

rate_limit(new, old, max_delta) ==
    LET delta == new - old IN
    IF delta > max_delta THEN old + max_delta
    ELSE IF delta < -max_delta THEN old - max_delta
    ELSE new

clamp_air(x) == clamp(x, AIR_MIN, AIR_MAX)

----------------------------------------------------------------------------
(* PID controller: state is [integrator, prev_err]; update returns the new *)
(* state and the clamped control signal.                                   *)

PID_init == [integrator |-> 0, prev_err |-> None]

PID_reset(pid) == [integrator |-> 0, prev_err |-> None]

(* update without the clamp of the integrator *)
PID_update_windup(pid, pv, sp, d, out_min, out_max) ==
    LET err == pv - sp
        integ == pid.integrator + err * d
        control_signal == PID_KP * err * 100 + PID_KI * integ
    IN [pid |-> [integrator |-> integ, prev_err |-> Some(err)],
        out |-> clamp(control_signal, out_min, out_max)]

(* The derivative term: (err - prev_err) / dt pH per second, rounded down  *)
(* to 0.0001 (PID_KD is 0, so the rounding never reaches the output).      *)
DTerm(pid, err, d) ==
    IF pid.prev_err /= None /\ d > 0
    THEN ((err - pid.prev_err[1]) * 10000) \div d
    ELSE 0

(* update taking the measured value itself as the error *)
PID_update_no_setpoint(pid, pv, sp, d, out_min, out_max) ==
    LET err == pv
        integ == clamp(pid.integrator + err * d, -IntegratorLimit, IntegratorLimit)
        control_signal == PID_KP * err * 100 + PID_KI * integ + PID_KD * DTerm(pid, err, d)
    IN [pid |-> [integrator |-> integ, prev_err |-> Some(err)],
        out |-> clamp(control_signal, out_min, out_max)]

(* kp*err is 25 * err * 0.01 = 2500 * err command units *)
PID_update(pid, pv, sp, d, out_min, out_max) ==
    LET err == pv - sp
        d_term == DTerm(pid, err, d)
        integ == clamp(pid.integrator + err * d, -IntegratorLimit, IntegratorLimit)
        control_signal == PID_KP * err * 100 + PID_KI * integ + PID_KD * d_term
    IN [pid |-> [integrator |-> integ, prev_err |-> Some(err)],
        out |-> clamp(control_signal, out_min, out_max)]

(* Output lower bound by mode (PID construction in main) *)
PidOutMin(m) == IF m = "co2_only" THEN 0 ELSE PidOutMinSplit

----------------------------------------------------------------------------
(* MM44 parsing.  A line is the sequence of its ';'-separated, stripped    *)
(* tokens.                                                                 *)

(* The channel ids: "C" followed by one digit *)
Channels == {"C0", "C1", "C2", "C3", "C4", "C5", "C6", "C7", "C8", "C9"}

(* tok.startswith("C") and len(tok) == 2 and tok[1].isdigit() *)
is_channel(tok) == tok \in Channels

(* str.upper() on the type tokens that occur *)
Upper(tok) ==
    CASE tok = "ph" -> "PH"
      [] tok = "do" -> "DO"
      [] tok = "od" -> "OD"
      [] OTHER -> tok

(* float(str(x).strip()), None when it raises; values in 0.01 units *)
safe_float(tok) ==
    CASE tok = "7.80" -> Some(780)
      [] tok = "7.40" -> Some(740)
      [] tok = "7.00" -> Some(700)
      [] tok = "15.0" -> Some(1500)
      [] tok = "55.0" -> Some(5500)
      [] tok = "25.1" -> Some(2510)
      [] OTHER -> None

NoParsed == [c \in Channels |-> None]

RECURSIVE ParseFrom(_, _, _)
ParseFrom(parts, i, parsed) ==
    IF i > Len(parts) THEN parsed
    ELSE LET hit == /\ is_channel(parts[i])
                    /\ i + 2 <= Len(parts)
                    /\ Upper(parts[i + 1]) \in {"PH", "DO", "OD"}
             entry == [type |-> IF Upper(parts[i + 1]) = "PH" THEN "pH" ELSE "DO",
                       value |-> safe_float(parts[i + 2])]
         IN ParseFrom(parts, i + 1,
                      IF hit THEN [parsed EXCEPT ![parts[i]] = Some(entry)] ELSE parsed)

(* The parser asking for three tokens after the channel id *)
RECURSIVE ParseFromStrict(_, _, _)
ParseFromStrict(parts, i, parsed) ==
    IF i > Len(parts) THEN parsed
    ELSE LET hit == /\ is_channel(parts[i])
                    /\ i + 2 < Len(parts)
                    /\ Upper(parts[i + 1]) \in {"PH", "DO", "OD"}
             entry == [type |-> IF Upper(parts[i + 1]) = "PH" THEN "pH" ELSE "DO",
                       value |-> safe_float(parts[i + 2])]
         IN ParseFromStrict(parts, i + 1,
                            IF hit THEN [parsed EXCEPT ![parts[i]] = Some(entry)] ELSE parsed)

parse_mm44_line_strict(parts) == ParseFromStrict(parts, 1, NoParsed)

(* channel -> None or <<[type, value]>>: the dict the parser returns *)
parse_mm44_line(parts) == ParseFrom(parts, 1, NoParsed)

(* dict.update: parsed entries overwrite, the others stay *)
DictUpdate(old, parsed) ==
    [c \in Channels |-> IF parsed[c] /= None THEN parsed[c] ELSE old[c]]

(* Lines 99-114 for one readline outcome: a device's channel map (None     *)
(* while the device has no entry in mm44_data) after a read that raised    *)
(* (<<"exc">>), an empty read (<<>>) or a line.                            *)
ReadInto(old, raw) ==
    IF raw = <<"exc">> \/ raw = <<>> THEN old
    ELSE LET parsed == parse_mm44_line(raw)
         IN IF parsed /= NoParsed
            THEN Some(DictUpdate(IF old = None THEN NoParsed ELSE old[1], parsed))
            ELSE old

(* The lines the analyzers send in the model, by position in mm44_list.  *)
(* Device 0 carries the pH of R1 (C1) and R2 (C2); device 1 the pH of R3  *)
(* (C1) and the DO of R1 (C2) and R2 (C3).                                 *)
LinesOf(i) ==
    IF i = 0
    THEN { <<"C1", "PH", "7.80", "C2", "PH", "7.00">>,
           <<"C1", "PH", "15.0", "C2", "ph", "7.40">>,
           <<"T", "25.1", "C9">> }
    ELSE { <<"C1", "PH", "7.80", "C2", "DO", "55.0", "C3", "OD", "55.0">> }

----------------------------------------------------------------------------
(* Alarm codes: <<reactor, code>> stands for f"{reactor}_{code}", and      *)
(* <<"", code>> for a code of the whole controller.                        *)

Key(r, code) == <<r, code>>
Global(code) == <<"", code>>

DevIdx == {0, 1}

(* The entry of (device, channel) in the channel map, or None *)
get_channel(data, dev, ch) ==
    IF dev \notin DevIdx \/ data[dev] = None THEN None ELSE data[dev][1][ch]

(* The four level-triggered mapping alarms of one reactor role *)
MappingAlarmsOf(data, r, role, dev, ch, kind) ==
    LET blk == get_channel(data, dev, ch)
        known == dev \in DevIdx /\ data[dev] /= None
    IN  (IF known /\ blk = None THEN {Key(r, role \o "_MISSING")} ELSE {})
        \cup (IF blk /= None /\ blk[1].type /= kind
              THEN {Key(r, role \o "_TYPE_MISMATCH")} ELSE {})

MappingCodes == {"PH_MISSING", "PH_TYPE_MISMATCH", "DO_MISSING", "DO_TYPE_MISMATCH"}

MappingAlarms(data) ==
    UNION {MappingAlarmsOf(data, r, "PH", REACTORS_DEFAULT[r].ph_mm44,
                           REACTORS_DEFAULT[r].ph_ch, "pH")
           \cup MappingAlarmsOf(data, r, "DO", REACTORS_DEFAULT[r].do_mm44,
                                REACTORS_DEFAULT[r].do_ch, "DO") : r \in Reactors}

(* validate_mapping: raise the mapping alarms whose condition holds, clear *)
(* the others; nothing else changes.                                       *)
validate_mapping(data, al) ==
    (al \ {Key(r, c) : r \in Reactors, c \in MappingCodes}) \cup MappingAlarms(data)

(* 0.0 <= ph <= 14.0 on a present value *)
PhValid(ph) == ph /= None /\ 0 <= ph[1] /\ ph[1] <= PhValidMax

----------------------------------------------------------------------------
(* State after construction (main, before the loop) *)

(* The configurations explored: reactors disabled in the reactor list,    *)
(* --mode and --no_mfc.                                                    *)
Configs ==
    { [disabled |-> {}, mode |-> "split", no_mfc |-> FALSE],
      [disabled |-> {"R3"}, mode |-> "split", no_mfc |-> TRUE],
      [disabled |-> {}, mode |-> "co2_only", no_mfc |-> FALSE] }

MainInit ==
    /\ \E c \in Configs : /\ enabled = [r \in Reactors |-> r \notin c.disabled]
                          /\ mode = c.mode
                          /\ no_mfc = c.no_mfc
    /\ state = S_INIT
    /\ alarms = {}
    /\ mm44_list = <<>>
    /\ mm44_data = [d \in DevIdx |-> None]
    /\ air_mfc = {}
    /\ co2_mfc = {}
    /\ pids = [r \in Reactors |-> PID_init]
    /\ co2_cmd = [r \in Reactors |-> 0]
    /\ air_cmd = [r \in Reactors |-> REACTORS_DEFAULT[r].air_baseline]
    /\ last_ph_time = [r \in Reactors |-> 0]
    /\ reactor_values = [r \in Reactors |-> None]
    /\ clock = StartClock
    /\ last_t = StartClock
    /\ dt = 0
    /\ pc = "top"
    /\ idx = 0
    /\ nread = 0
    /\ ri = 1
    /\ snapshot = None
    /\ iter = 0
    /\ read_failed = FALSE
    /\ got_valid = {}
    /\ mfc_writes = {}
    /\ shutdown_writes = {}
    /\ closed = FALSE

RLIdle == rl_new = 0 /\ rl_old = 0 /\ rl_max = 0 /\ rl_out = None

PIDIdle == pid_s = PID_init /\ pid_out = None /\ pid_n = 0

(* The simple loop's objects as its main constructs them *)
SimpleConstructed ==
    /\ simple_pids = [r \in Reactors |-> PID_init]
    /\ simple_co2 = [r \in Reactors |-> 0]
    /\ simple_air = [r \in Reactors |-> REACTORS_DEFAULT[r].air_baseline]
    /\ simple_u = [r \in Reactors |-> None]
    /\ simple_ri = 1
    /\ simple_n = 0
    /\ simple_done = FALSE

SimpleIdle == SimpleConstructed /\ simple_dt = 100

ParseIdle == p_raw = <<>> /\ p_map = NoParsed /\ p_res = None

Init == MainInit /\ RLIdle /\ PIDIdle /\ SimpleIdle /\ ParseIdle

----------------------------------------------------------------------------
(* Top of the loop body: now, dt, last_t *)

LoopHead ==
    /\ dt' = Max(clock - last_t, DtFloor)
    /\ last_t' = clock
    /\ idx' = 0
    /\ nread' = 0
    /\ read_failed' = FALSE
    /\ got_valid' = {}
    /\ mfc_writes' = {}

(* open_mm44_all: the transports that opened, in port order, and whether  *)
(* all of them did.                                                        *)
OpenOutcomes == {<<0, 1>>, <<0>>, <<>>}

(* Actuator bring-up: "ok", or the reactor position and the call that     *)
(* raised.                                                                 *)
MfcOutcomes ==
    { [ok |-> TRUE, at |-> 0, stage |-> "none"],
      [ok |-> FALSE, at |-> 1, stage |-> "make_air"],
      [ok |-> FALSE, at |-> 2, stage |-> "make_co2"] }

MfcMade(o, which) ==
    IF o.ok THEN Reactors
    ELSE {ReactorOrder[k] : k \in 1..(o.at - 1)}
         \cup (IF \/ which = "air" /\ o.stage /= "make_air"
                  \/ which = "co2" /\ o.stage \in {"write_air", "write_co2"}
               THEN {ReactorOrder[o.at]} ELSE {})

(* INIT always going to RUN *)
InitTargetAlwaysRun(al) == S_RUN

(* The state INIT decides on from the alarms raised by bring-up *)
InitTarget(al) == IF al /= {} THEN S_FAILSAFE ELSE S_RUN

(* The alarm check of lines 91-94 run in every iteration *)
LoopStateRecheck(st, al) == IF al /= {} THEN S_FAILSAFE ELSE st

(* Outside the INIT block no statement assigns state *)
LoopState(st, al) == st

(* First iteration: the INIT block, lines 73-94 *)
InitStep ==
    /\ pc = "top"
    /\ state = S_INIT
    /\ LoopHead
    /\ \E opened \in OpenOutcomes :
       \E o \in (IF no_mfc THEN {[ok |-> TRUE, at |-> 0, stage |-> "none"]} ELSE MfcOutcomes) :
          LET al == (IF Len(opened) /= 2 THEN {Global("MM44_OPEN_FAIL")} ELSE {})
                    \cup (IF ~o.ok THEN {Global("MFC_INIT_FAIL")} ELSE {})
          IN /\ mm44_list' = opened
             /\ air_mfc' = IF no_mfc THEN {} ELSE MfcMade(o, "air")
             /\ co2_mfc' = IF no_mfc THEN {} ELSE MfcMade(o, "co2")
             /\ alarms' = al
             /\ state' = InitTarget(al)
    /\ pc' = "read"
    /\ UNCHANGED <<cfgvars, fnvars, mm44_data, pids, co2_cmd, air_cmd, last_ph_time,
                   reactor_values, clock, ri, snapshot, iter, shutdown_writes, closed>>

(* Later iterations: the INIT block is skipped *)
LoopTop ==
    /\ pc = "top"
    /\ state /= S_INIT
    /\ LoopHead
    /\ state' = LoopState(state, alarms)
    /\ pc' = "read"
    /\ UNCHANGED <<cfgvars, fnvars, alarms, mm44_list, mm44_data, air_mfc, co2_mfc,
                   pids, co2_cmd, air_cmd, last_ph_time, reactor_values, clock, ri,
                   snapshot, iter, shutdown_writes, closed>>

----------------------------------------------------------------------------
(* Read MM44: one readline of the device at position idx, lines 96-114 *)

ReadOutcomes(i) == {<<"exc">>, <<>>} \cup LinesOf(i)

(* Reactors for which this parsed line carries a valid pH value *)
ValidIn(parsed, i) ==
    {r \in Reactors : /\ REACTORS_DEFAULT[r].ph_mm44 = i
                      /\ parsed[REACTORS_DEFAULT[r].ph_ch] /= None
                      /\ PhValid(parsed[REACTORS_DEFAULT[r].ph_ch][1].value)}

(* The break leaving the loop over the devices as well *)
BreakOuter(i, len) == len

(* The break of lines 103 and 106 leaves the inner loop: the position in   *)
(* mm44_list the read loop goes on with                                    *)
BreakInner(i, len) == i + 1

ReadLine ==
    /\ pc = "read"
    /\ idx < Len(mm44_list)
    /\ \E raw \in ReadOutcomes(idx) :
          IF raw = <<"exc">>
          THEN /\ alarms' = alarms \cup {Global("MM44_READ_FAIL")}
               /\ read_failed' = TRUE
               /\ idx' = BreakInner(idx, Len(mm44_list))
               /\ nread' = 0
               /\ UNCHANGED <<mm44_data, got_valid>>
          ELSE IF raw = <<>>
          THEN /\ idx' = BreakInner(idx, Len(mm44_list))
               /\ nread' = 0
               /\ UNCHANGED <<alarms, read_failed, mm44_data, got_valid>>
          ELSE LET parsed == parse_mm44_line(raw) IN
               /\ mm44_data' = [mm44_data EXCEPT ![idx] = ReadInto(@, raw)]
               /\ got_valid' = got_valid \cup ValidIn(parsed, idx)
               /\ IF nread + 1 = MaxDrain
                  THEN idx' = idx + 1 /\ nread' = 0
                  ELSE idx' = idx /\ nread' = nread + 1
               /\ UNCHANGED <<alarms, read_failed>>
    /\ UNCHANGED <<cfgvars, fnvars, state, mm44_list, air_mfc, co2_mfc, pids, co2_cmd,
                   air_cmd, last_ph_time, reactor_values, clock, last_t, dt, pc, ri,
                   snapshot, iter, mfc_writes, shutdown_writes, closed>>

(* validate_mapping(mm44_data, reactors, alarms), line 116 *)
ValidateMapping ==
    /\ pc = "read"
    /\ idx = Len(mm44_list)
    /\ alarms' = validate_mapping(mm44_data, alarms)
    /\ pc' = "build"
    /\ UNCHANGED <<cfgvars, fnvars, state, mm44_list, mm44_data, air_mfc, co2_mfc, pids,
                   co2_cmd, air_cmd, last_ph_time, reactor_values, clock, last_t, dt,
                   idx, nread, ri, snapshot, iter, read_failed, got_valid, mfc_writes,
                   shutdown_writes, closed>>

(* The pH value the loop uses for a reactor: the cached channel value *)
PhOf(data, r) ==
    LET blk == get_channel(data, REACTORS_DEFAULT[r].ph_mm44, REACTORS_DEFAULT[r].ph_ch)
    IN IF blk /= None THEN blk[1].value ELSE None

(* last_ph_time after the build loop *)
StampTime(data, r, old, now) == IF PhValid(PhOf(data, r)) THEN now ELSE old

(* Build reactor values, lines 118-135 *)
BuildValues ==
    /\ pc = "build"
    /\ last_ph_time' = [r \in Reactors |-> StampTime(mm44_data, r, last_ph_time[r], clock)]
    /\ reactor_values' =
          [r \in Reactors |-> Some([enabled |-> enabled[r],
                                    pH |-> PhOf(mm44_data, r),
                                    ph_sp |-> REACTORS_DEFAULT[r].ph_sp,
                                    air_baseline |-> REACTORS_DEFAULT[r].air_baseline,
                                    air_cmd |-> air_cmd[r],
                                    co2_cmd |-> co2_cmd[r]])]
    /\ pc' = "stale"
    /\ UNCHANGED <<cfgvars, fnvars, state, alarms, mm44_list, mm44_data, air_mfc, co2_mfc,
                   pids, co2_cmd, air_cmd, clock, last_t, dt, idx, nread, ri, snapshot,
                   iter, read_failed, got_valid, mfc_writes, shutdown_writes, closed>>

(* The stale condition without the "recorded at least once" test *)
IsStaleNoZeroTest(last, now) == (now - last) > MM44_STALE_SEC

(* The stale condition of line 140 *)
IsStale(last, now) == last /= 0 /\ (now - last) > MM44_STALE_SEC

(* Stale detection, lines 137-143 *)
StaleDetection ==
    /\ pc = "stale"
    /\ alarms' = (alarms \ {Key(r, "PH_STALE") : r \in Reactors})
                 \cup {Key(r, "PH_STALE") : r \in {q \in Reactors : IsStale(last_ph_time[q], clock)}}
    /\ pc' = "control"
    /\ ri' = 1
    /\ UNCHANGED <<cfgvars, fnvars, state, mm44_list, mm44_data, air_mfc, co2_mfc, pids,
                   co2_cmd, air_cmd, last_ph_time, reactor_values, clock, last_t, dt,
                   idx, nread, snapshot, iter, read_failed, got_valid, mfc_writes,
                   shutdown_writes, closed>>

----------------------------------------------------------------------------
(* Control, lines 145-181: one step per reactor of the for loop *)

(* Line 148: the reactor is forced safe instead of controlled *)
SafeCond(en, al, r) == ~en[r] \/ Key(r, "PH_STALE") \in al

(* apply_safe_outputs_for_reactor: both commands become exactly 0 *)
SafeCo2 == 0
SafeAir == 0

(* The deadband test never succeeding: the PID is updated on every reading *)
InDeadbandNever(ph, sp) == FALSE

(* Lines 158-161: deadband, else the PID update *)
InDeadband(ph, sp) == Abs(ph - sp) <= PH_DEADBAND_DEFAULT

(* Lines 163-168: split-range allocation *)
TargetCo2(m, u) == IF m = "co2_only" \/ u >= 0 THEN clamp(u, CO2_MIN, CO2_MAX) ELSE 0
TargetAir(m, u, base) ==
    IF m = "co2_only" \/ u >= 0 THEN base ELSE clamp_air(base + Abs(u))

(* The per-second rate taken as the step, whatever dt is *)
MaxDeltaPerSecond(rate, d) == rate * 10000

(* rate-per-second * dt: 1 %/s * 0.01 s is 100 command units *)
MaxDelta(rate, d) == rate * d * 100

(* The safe branch forcing the whole fleet *)
SafeTargetsAll(r) == Reactors

(* The reactors whose commands the safe branch for reactor r overwrites *)
SafeTargets(r) == {r}

ControlReactor ==
    /\ pc = "control"
    /\ state = S_RUN
    /\ ri <= Len(ReactorOrder)
    /\ LET r == ReactorOrder[ri]
           ph == reactor_values[r][1].pH
           sp == REACTORS_DEFAULT[r].ph_sp
       IN IF SafeCond(enabled, alarms, r)
          THEN /\ co2_cmd' = [q \in Reactors |-> IF q \in SafeTargets(r) THEN SafeCo2 ELSE co2_cmd[q]]
               /\ air_cmd' = [q \in Reactors |-> IF q \in SafeTargets(r) THEN SafeAir ELSE air_cmd[q]]
               /\ mfc_writes' = IF no_mfc THEN mfc_writes
                                ELSE mfc_writes \cup {<<q, "safe">> : q \in SafeTargets(r)}
               /\ UNCHANGED pids
          ELSE IF ph = None
          THEN UNCHANGED <<co2_cmd, air_cmd, pids, mfc_writes>>
          ELSE LET res == IF InDeadband(ph[1], sp)
                          THEN [pid |-> pids[r], out |-> 0]
                          ELSE PID_update(pids[r], ph[1], sp, dt, PidOutMin(mode), CO2_MAX)
                   u == res.out
               IN /\ pids' = [pids EXCEPT ![r] = res.pid]
                  /\ co2_cmd' = [co2_cmd EXCEPT ![r] =
                        rate_limit(TargetCo2(mode, u), co2_cmd[r],
                                   MaxDelta(CO2_RATE_LIMIT_PER_S, dt))]
                  /\ air_cmd' = [air_cmd EXCEPT ![r] =
                        rate_limit(TargetAir(mode, u, REACTORS_DEFAULT[r].air_baseline),
                                   air_cmd[r], MaxDelta(AIR_RATE_LIMIT_PER_S, dt))]
                  /\ mfc_writes' = IF no_mfc THEN mfc_writes
                                   ELSE mfc_writes \cup {<<r, "cmd">>}
    /\ ri' = ri + 1
    /\ pc' = IF ri = Len(ReactorOrder) THEN "dash" ELSE "control"
    /\ UNCHANGED <<cfgvars, fnvars, state, alarms, mm44_list, mm44_data, air_mfc, co2_mfc,
                   last_ph_time, reactor_values, clock, last_t, dt, idx, nread, snapshot,
                   iter, read_failed, got_valid, shutdown_writes, closed>>

(* state is not RUN: the control block is not entered *)
ControlSkip ==
    /\ pc = "control"
    /\ state /= S_RUN
    /\ pc' = "dash"
    /\ UNCHANGED <<cfgvars, fnvars, state, alarms, mm44_list, mm44_data, air_mfc, co2_mfc,
                   pids, co2_cmd, air_cmd, last_ph_time, reactor_values, clock, last_t, dt,
                   idx, nread, ri, snapshot, iter, read_failed, got_valid, mfc_writes,
                   shutdown_writes, closed>>

(* Dashboard, lines 183-193: snapshot is the object handed to json.dump   *)
(* (a failed file write is swallowed and changes nothing in the loop).    *)
Dashboard ==
    /\ pc = "dash"
    /\ snapshot' = Some([state |-> state, alarms |-> alarms, reactors |-> reactor_values])
    /\ pc' = "sleep"
    /\ UNCHANGED <<cfgvars, fnvars, state, alarms, mm44_list, mm44_data, air_mfc, co2_mfc,
                   pids, co2_cmd, air_cmd, last_ph_time, reactor_values, clock, last_t, dt,
                   idx, nread, ri, iter, read_failed, got_valid, mfc_writes,
                   shutdown_writes, closed>>

(* time.sleep(args.dt), line 227, and the time the iteration itself took *)
Sleep ==
    /\ pc = "sleep"
    /\ iter < MaxIter
    /\ \E e \in Elapsed : clock' = clock + e
    /\ iter' = iter + 1
    /\ pc' = "top"
    /\ UNCHANGED <<cfgvars, fnvars, state, alarms, mm44_list, mm44_data, air_mfc, co2_mfc,
                   pids, co2_cmd, air_cmd, last_ph_time, reactor_values, last_t, dt,
                   idx, nread, ri, snapshot, read_failed, got_valid, mfc_writes,
                   shutdown_writes, closed>>

(* The shutdown writes that raise: none, or the write of the first reactor *)
ShutdownFailures(have) == {{}, have \cap {ReactorOrder[1]}}

(* The shutdown loop with the try around the whole loop: the first write   *)
(* that raises ends it                                                     *)
ShutdownWritesAbort(have, failing) ==
    {<<ReactorOrder[k], IF ReactorOrder[k] \in failing THEN "raised" ELSE "ok">> :
        k \in {j \in 1..Len(ReactorOrder) :
                  /\ ReactorOrder[j] \in have
                  /\ \A i \in 1..(j - 1) : ReactorOrder[i] \notin (have \cap failing)}}

(* Lines 233-238: for every reactor, in its own try, the CO2 = 0 write if  *)
(* the reactor has a CO2 instrument                                        *)
ShutdownWrites(have, failing) ==
    {<<ReactorOrder[k], IF ReactorOrder[k] \in failing THEN "raised" ELSE "ok">> :
        k \in {j \in 1..Len(ReactorOrder) : ReactorOrder[j] \in have}}

(* KeyboardInterrupt and the finally block, lines 229-241 *)
Interrupt ==
    /\ pc /= "done"
    /\ \E failing \in ShutdownFailures(co2_mfc) :
          shutdown_writes' = ShutdownWrites(co2_mfc, failing)
    /\ closed' = TRUE
    /\ pc' = "done"
    /\ UNCHANGED <<cfgvars, fnvars, state, alarms, mm44_list, mm44_data, air_mfc, co2_mfc,
                   pids, co2_cmd, air_cmd, last_ph_time, reactor_values, clock, last_t, dt,
                   idx, nread, ri, snapshot, iter, read_failed, got_valid, mfc_writes>>

Next ==
    \/ InitStep
    \/ LoopTop
    \/ ReadLine
    \/ ValidateMapping
    \/ BuildValues
    \/ StaleDetection
    \/ ControlReactor
    \/ ControlSkip
    \/ Dashboard
    \/ Sleep
    \/ Interrupt

Spec == Init /\ [][Next]_vars

----------------------------------------------------------------------------
(* rate_limit as a pure function: inputs drawn from bounded sets *)

InitRL ==
    /\ MainInit
    /\ mode = "split" /\ ~no_mfc
    /\ rl_new \in -MaxRL..MaxRL
    /\ rl_old \in -MaxRL..MaxRL
    /\ rl_max \in 0..MaxRL
    /\ rl_out = None
    /\ PIDIdle /\ SimpleIdle /\ ParseIdle

ApplyRateLimit ==
    /\ rl_out = None
    /\ rl_out' = Some(rate_limit(rl_new, rl_old, rl_max))
    /\ UNCHANGED <<cfgvars, state, alarms, mm44_list, mm44_data, air_mfc, co2_mfc, pids,
                   co2_cmd, air_cmd, last_ph_time, reactor_values, clock, last_t, dt, pc,
                   idx, nread, ri, snapshot, iter, read_failed, got_valid, mfc_writes,
                   shutdown_writes, closed, rl_new, rl_old, rl_max, pidvars,
                   simplevars, parsevars>>

NextRL == ApplyRateLimit

SpecRateLimit == InitRL /\ [][NextRL]_vars

----------------------------------------------------------------------------
(* The PID object on its own: any sequence of update and reset calls.      *)
(* The measured values are pH readings outside the deadband of the         *)
(* setpoint 7.40, the elapsed times 0.01 s, 4 s and 1000 s.                *)

PidInputs == {0, 700, 746, 780, 1500}
PidElapsed == {1, 400, 100000}
PidSetpoint == REACTORS_DEFAULT["R1"].ph_sp

InitPID == MainInit /\ RLIdle /\ PIDIdle /\ SimpleIdle /\ ParseIdle

PidUpdate ==
    /\ pid_n < MaxPidCalls
    /\ \E pv \in PidInputs : \E d \in PidElapsed :
          LET res == PID_update(pid_s, pv, PidSetpoint, d, PidOutMin(mode), CO2_MAX)
          IN /\ pid_s' = res.pid
             /\ pid_out' = Some(res.out)
    /\ pid_n' = pid_n + 1
    /\ UNCHANGED <<cfgvars, mainvars, rlvars, simplevars, parsevars>>

PidReset ==
    /\ pid_n < MaxPidCalls
    /\ pid_s' = PID_reset(pid_s)
    /\ pid_n' = pid_n + 1
    /\ UNCHANGED <<cfgvars, mainvars, rlvars, simplevars, parsevars, pid_out>>

NextPID == PidUpdate \/ PidReset

SpecPID == InitPID /\ [][NextPID]_vars

----------------------------------------------------------------------------
(* The simple loop: main of phreg_multi_reactor_controller.py, which feeds *)
(* every enabled reactor's PID its own setpoint as the measured value.     *)

(* args.dt: 0 s, 0.01 s, 1 s (the default) and 2 s *)
SimpleDts == {0, 1, 100, 200}

InitSimple ==
    /\ MainInit /\ RLIdle /\ PIDIdle /\ ParseIdle
    /\ SimpleConstructed
    /\ simple_dt \in SimpleDts

(* One pass of the for loop body, lines 266-285 *)
SimpleReactor ==
    /\ ~simple_done
    /\ simple_ri <= Len(ReactorOrder)
    /\ LET r == ReactorOrder[simple_ri]
           base == REACTORS_DEFAULT[r].air_baseline
       IN IF ~enabled[r]
          THEN /\ simple_co2' = [simple_co2 EXCEPT ![r] = 0]
               /\ simple_air' = [simple_air EXCEPT ![r] = 0]
               /\ UNCHANGED <<simple_pids, simple_u>>
          ELSE LET ph == REACTORS_DEFAULT[r].ph_sp
                   res == PID_update(simple_pids[r], ph, REACTORS_DEFAULT[r].ph_sp,
                                     simple_dt, PidOutMinSplit, CO2_MAX)
                   u == res.out
               IN /\ simple_pids' = [simple_pids EXCEPT ![r] = res.pid]
                  /\ simple_u' = [simple_u EXCEPT ![r] = Some(u)]
                  /\ IF u >= 0
                     THEN /\ simple_co2' = [simple_co2 EXCEPT ![r] =
                                rate_limit(u, simple_co2[r], CO2_RATE_LIMIT_PER_S * 10000)]
                          /\ simple_air' = [simple_air EXCEPT ![r] = base]
                     ELSE /\ simple_co2' = [simple_co2 EXCEPT ![r] = 0]
                          /\ simple_air' = [simple_air EXCEPT ![r] =
                                clamp(base + Abs(u), AIR_MIN, AIR_MAX)]
    /\ simple_ri' = simple_ri + 1
    /\ UNCHANGED <<cfgvars, mainvars, rlvars, pidvars, parsevars, simple_dt, simple_n,
                   simple_done>>

(* print and time.sleep(args.dt), lines 287-295, then the next iteration *)
SimpleSleep ==
    /\ ~simple_done
    /\ simple_ri = Len(ReactorOrder) + 1
    /\ simple_n < MaxSimpleIter
    /\ simple_ri' = 1
    /\ simple_n' = simple_n + 1
    /\ UNCHANGED <<cfgvars, mainvars, rlvars, pidvars, parsevars, simple_pids, simple_co2,
                   simple_air, simple_u, simple_dt, simple_done>>

(* KeyboardInterrupt, lines 297-298 *)
SimpleInterrupt ==
    /\ ~simple_done
    /\ simple_done' = TRUE
    /\ UNCHANGED <<cfgvars, mainvars, rlvars, pidvars, parsevars, simple_pids, simple_co2,
                   simple_air, simple_u, simple_dt, simple_ri, simple_n>>

NextSimple == SimpleReactor \/ SimpleSleep \/ SimpleInterrupt

SpecSimple == InitSimple /\ [][NextSimple]_vars

----------------------------------------------------------------------------
(* parse_mm44_line and the channel-map update on their own: one readline   *)
(* outcome applied to a channel map.                                       *)

(* Tokens of a line: channel ids, type tokens, a token that is neither a   *)
(* type nor a number, and a number                                         *)
Tokens == {"C1", "C2", "ph", "DO", "OD", "XX", "7.80"}

TokenLines == UNION {[1..n -> Tokens] : n \in 0..MaxTok}

(* Channel maps before the read: no entry for the device, or C1 and C3 known *)
PriorMaps ==
    { None,
      Some([NoParsed EXCEPT !["C1"] = Some([type |-> "pH", value |-> Some(700)]),
                            !["C3"] = Some([type |-> "DO", value |-> Some(5500)])]) }

InitParse ==
    /\ MainInit /\ mode = "split" /\ ~no_mfc
    /\ RLIdle /\ PIDIdle /\ SimpleIdle
    /\ p_raw \in TokenLines \cup {<<"exc">>}
    /\ p_map \in PriorMaps
    /\ p_res = None

ParseRead ==
    /\ p_res = None
    /\ p_res' = Some(ReadInto(p_map, p_raw))
    /\ UNCHANGED <<cfgvars, mainvars, rlvars, pidvars, simplevars, p_raw, p_map>>

NextParse == ParseRead

SpecParse == InitParse /\ [][NextParse]_vars

----------------------------------------------------------------------------
(* Properties *)

StaleKey(r) == Key(r, "PH_STALE")

MappingKeys(r) == {Key(r, c) : c \in MappingCodes}

(* C1: whenever the state is FAILSAFE, at the end of the iteration every   *)
(* reactor's CO2 command and AIR command are both exactly 0.               *)
C1_FailsafeForcesAllSafe ==
    (state = S_FAILSAFE /\ pc = "sleep")
        => \A r \in Reactors : co2_cmd[r] = 0 /\ air_cmd[r] = 0

(* C2: the INIT step leaves only bring-up alarms in the alarm set, goes to *)
(* FAILSAFE if and only if that set is non-empty and to RUN otherwise, and *)
(* the state is never INIT once the first iteration has started.           *)
C2_InitDecides ==
    [][ /\ (state = S_INIT /\ pc' = "read")
            => /\ alarms' \subseteq {Global("MM44_OPEN_FAIL"), Global("MFC_INIT_FAIL")}
               /\ (Global("MM44_OPEN_FAIL") \in alarms' <=> Len(mm44_list') /= 2)
               /\ (no_mfc => Global("MFC_INIT_FAIL") \notin alarms')
               /\ (state' = S_FAILSAFE <=> alarms' /= {})
               /\ (state' = S_RUN <=> alarms' = {})
        /\ ((pc' \notin {"top", "done"} \/ iter' > 0) => state' /= S_INIT) ]_vars

C2_Witness ==
    /\ state = S_FAILSAFE
    /\ alarms = {Global("MFC_INIT_FAIL")}
    /\ pc = "read"
    /\ iter = 0

(* C3: after INIT the controller state never changes, whatever alarms are  *)
(* raised, and DEGRADED is never reached.                                  *)
C3_StateFrozenAfterInit ==
    [][ /\ (state /= S_INIT => state' = state)
        /\ state' /= S_DEGRADED ]_vars

C3_Witness ==
    /\ state = S_RUN
    /\ iter > 0
    /\ pc = "read"
    /\ Global("MM44_READ_FAIL") \in alarms
    /\ \E r \in Reactors : StaleKey(r) \in alarms

(* C4: in RUN, at the end of the control block, every reactor that is      *)
(* disabled or has an active stale or mapping alarm has CO2 command 0 and  *)
(* AIR command 0.                                                          *)
C4_FaultyReactorForcedSafe ==
    (state = S_RUN /\ pc = "dash")
        => \A r \in Reactors :
              (~enabled[r] \/ StaleKey(r) \in alarms \/ MappingKeys(r) \cap alarms /= {})
                  => (co2_cmd[r] = 0 /\ air_cmd[r] = 0)

(* C5: the staleness timestamp of a reactor advances only in an iteration  *)
(* in which a valid pH reading of that reactor was actually received.      *)
C5_StampOnlyOnObservedReading ==
    pc = "stale"
        => \A r \in Reactors : last_ph_time[r] = clock => r \in got_valid

(* C6: after stale detection a reactor's PH_STALE alarm is raised exactly  *)
(* when a valid reading was recorded (timestamp non-zero) and more than    *)
(* the stale threshold has elapsed since; a reactor that never produced a  *)
(* valid reading never has the alarm.                                      *)
C6_StaleAlarmIff ==
    \A r \in Reactors :
        /\ pc \in {"control", "dash", "sleep"}
              => (StaleKey(r) \in alarms
                    <=> (last_ph_time[r] /= 0 /\ clock - last_ph_time[r] > MM44_STALE_SEC))
        /\ last_ph_time[r] = 0 => StaleKey(r) \notin alarms

C6_Witness ==
    /\ pc = "control"
    /\ \E r \in Reactors : StaleKey(r) \in alarms
    /\ \E r \in Reactors : last_ph_time[r] = 0 /\ clock > MM44_STALE_SEC
    /\ \E r \in Reactors : last_ph_time[r] /= 0 /\ StaleKey(r) \notin alarms

(* C7 as claimed: every CO2 command lies in [0, CO2_MAX] and every AIR     *)
(* command in [AIR_MIN, AIR_MAX].                                          *)
C7_CommandRanges ==
    \A r \in Reactors :
        /\ 0 <= co2_cmd[r] /\ co2_cmd[r] <= CO2_MAX
        /\ AIR_MIN <= air_cmd[r] /\ air_cmd[r] <= AIR_MAX

(* C7 amended: every CO2 command lies in [0, CO2_MAX] and every AIR        *)
(* command in [0, AIR_MAX]; AIR is below AIR_MIN only from a forced-safe   *)
(* zero and the rate-limited climb back to the baseline.                   *)
C7_CommandRangesAmended ==
    \A r \in Reactors :
        /\ 0 <= co2_cmd[r] /\ co2_cmd[r] <= CO2_MAX
        /\ 0 <= air_cmd[r] /\ air_cmd[r] <= AIR_MAX

C7_Witness ==
    /\ \E r \in Reactors : 0 < air_cmd[r] /\ air_cmd[r] < AIR_MIN
    /\ \E r \in Reactors : air_cmd[r] > REACTORS_DEFAULT[r].air_baseline
    /\ \E r \in Reactors : co2_cmd[r] > 0

(* C8: alarms are level-triggered: at the end of an iteration the read     *)
(* failure alarm is in the alarm set if and only if a device read failed   *)
(* in that iteration.                                                      *)
C8_ReadFailLevelTriggered ==
    pc = "sleep" => (Global("MM44_READ_FAIL") \in alarms <=> read_failed)

(* C9: a control step that forces a reactor safe or skips it leaves every  *)
(* other reactor's commands and PID state, all PID states of the skipped   *)
(* reactor and all staleness timestamps unchanged, and the loop goes on to *)
(* the next reactor.                                                       *)
C9_FaultIsolation ==
    [][ (pc = "control" /\ state = S_RUN /\ pc' /= "done"
         /\ (SafeCond(enabled, alarms, ReactorOrder[ri])
             \/ reactor_values[ReactorOrder[ri]][1].pH = None))
        => /\ \A q \in Reactors \ {ReactorOrder[ri]} :
                 /\ co2_cmd'[q] = co2_cmd[q]
                 /\ air_cmd'[q] = air_cmd[q]
           /\ pids' = pids
           /\ last_ph_time' = last_ph_time
           /\ ri' = ri + 1
           /\ (ri < Len(ReactorOrder) => pc' = "control") ]_vars

C9_Witness ==
    /\ state = S_RUN
    /\ pc = "dash"
    /\ \E r \in Reactors :
          /\ SafeCond(enabled, alarms, r)
          /\ co2_cmd[r] = 0 /\ air_cmd[r] = 0
          /\ \E q \in Reactors \ {r} :
                /\ co2_cmd[q] > 0
                /\ pids[q].prev_err /= None
                /\ <<q, "cmd">> \in mfc_writes \/ no_mfc

(* C10: the result of rate_limit differs from the current value by at most *)
(* maxDelta.                                                               *)
C10_RateLimitBound ==
    rl_out /= None => Abs(rl_out[1] - rl_old) <= rl_max

C10_Witness ==
    /\ rl_out /= None
    /\ rl_out[1] /= rl_new
    /\ rl_max > 0
    /\ rl_out[1] = rl_old - rl_max

(* C11: a RUN control step for a reactor that is not forced safe and whose *)
(* pH is present and within the deadband of the setpoint leaves that       *)
(* reactor's PID integrator and previous error unchanged and uses a        *)
(* control signal of exactly 0: the CO2 target is 0 and the AIR target the *)
(* baseline, each approached under the rate limit.                         *)
C11_DeadbandFreezesPid ==
    [][ \A r \in Reactors :
          (/\ pc = "control" /\ state = S_RUN /\ pc' /= "done"
           /\ ri <= Len(ReactorOrder) /\ r = ReactorOrder[ri]
           /\ enabled[r] /\ StaleKey(r) \notin alarms
           /\ reactor_values[r][1].pH /= None
           /\ Abs(reactor_values[r][1].pH[1] - REACTORS_DEFAULT[r].ph_sp)
                  <= PH_DEADBAND_DEFAULT)
          => /\ pids'[r] = pids[r]
             /\ co2_cmd'[r] = rate_limit(0, co2_cmd[r], CO2_RATE_LIMIT_PER_S * dt * 100)
             /\ air_cmd'[r] = rate_limit(REACTORS_DEFAULT[r].air_baseline, air_cmd[r],
                                         AIR_RATE_LIMIT_PER_S * dt * 100) ]_vars

(* R2 at the setpoint after an iteration below it: the PID state of the    *)
(* earlier iteration is still there after the control block.               *)
C11_Witness ==
    /\ state = S_RUN
    /\ pc = "dash"
    /\ enabled["R2"] /\ StaleKey("R2") \notin alarms
    /\ reactor_values["R2"] /= None
    /\ reactor_values["R2"][1].pH = Some(740)
    /\ pids["R2"].prev_err = Some(-40)
    /\ pids["R2"].integrator < 0

(* C12: after any sequence of PID update and reset calls the integrator    *)
(* lies in [-1000, 1000] pH*s whatever the output bounds are, and the      *)
(* value returned by every update lies in [out_min, out_max].              *)
C12_AntiWindup ==
    /\ -10000000 <= pid_s.integrator /\ pid_s.integrator <= 10000000
    /\ pid_out /= None
          => /\ (IF mode = "co2_only" THEN 0 ELSE -1000000) <= pid_out[1]
             /\ pid_out[1] <= CO2_MAX

(* The integrator held at -1000 while the output floor is 0 *)
C12_Witness ==
    /\ mode = "co2_only"
    /\ pid_s.integrator = -10000000
    /\ pid_s.prev_err = Some(-40)
    /\ pid_out = Some(0)
    /\ pid_n = MaxPidCalls

(* C13: from construction (the state reset also gives), consecutive        *)
(* updates with the measured value equal to the setpoint each return 0,    *)
(* keep the integrator at 0 and have a zero derivative term, the first one *)
(* because there is no previous error; so in the simple loop every enabled *)
(* reactor keeps CO2 command 0 and AIR command equal to its baseline.      *)
C13_SetpointHoldsZero ==
    \A r \in Reactors :
        /\ PID_reset(simple_pids[r]) = PID_init
        /\ enabled[r] =>
              /\ simple_u[r] \in {None, Some(0)}
              /\ simple_pids[r].integrator = 0
              /\ simple_pids[r].prev_err \in {None, Some(0)}
              /\ DTerm(simple_pids[r], 0, simple_dt) = 0
              /\ simple_co2[r] = 0
              /\ simple_air[r] = REACTORS_DEFAULT[r].air_baseline

C13_Witness ==
    /\ simple_n = MaxSimpleIter
    /\ simple_ri = Len(ReactorOrder) + 1
    /\ simple_dt > 0
    /\ \A r \in Reactors :
          /\ enabled[r]
          /\ simple_u[r] = Some(0)
          /\ simple_pids[r] = [integrator |-> 0, prev_err |-> Some(0)]

(* C14: after an update with the pH above the setpoint by more than the    *)
(* deadband the control signal is >= 0 and the AIR target is the baseline; *)
(* after one with the pH below it by more than the deadband in split mode  *)
(* the CO2 target is 0 and the AIR target is above the baseline; in        *)
(* CO2-only mode the signal is never negative and the AIR target is the    *)
(* baseline.                                                               *)
C14_SignOfControl ==
    (pid_out /= None /\ pid_s.prev_err /= None)
        => LET err == pid_s.prev_err[1]
               u == pid_out[1]
               base == REACTORS_DEFAULT["R1"].air_baseline
           IN /\ err > PH_DEADBAND_DEFAULT
                    => u >= 0 /\ TargetAir(mode, u, base) = base
              /\ (err < -PH_DEADBAND_DEFAULT /\ mode = "split")
                    => TargetCo2(mode, u) = 0 /\ TargetAir(mode, u, base) > base
              /\ mode = "co2_only"
                    => u >= 0 /\ TargetAir(mode, u, base) = base

(* C15: after an interrupt a CO2 = 0 write has been attempted for every    *)
(* reactor that has a CO2 instrument, whether or not one of the writes     *)
(* raised, and for no other reactor; the analyzer transports are closed    *)
(* and the program has ended; before the interrupt none of this is done.   *)
C15_ShutdownCompletes ==
    /\ pc = "done"
          => /\ {w[1] : w \in shutdown_writes} = co2_mfc
             /\ closed
    /\ pc /= "done" => shutdown_writes = {} /\ ~closed

(* The first write raised and the other two were still attempted *)
C15_Witness ==
    /\ pc = "done"
    /\ closed
    /\ co2_mfc = Reactors
    /\ shutdown_writes = {<<"R1", "raised">>, <<"R2", "ok">>, <<"R3", "ok">>}
    /\ state = S_RUN
    /\ \E r \in Reactors : co2_cmd[r] > 0

(* C16: in a RUN control step in which a reactor runs its control          *)
(* algorithm (it is not forced safe and its pH is present), its new CO2    *)
(* command and its new AIR command each differ from the command the        *)
(* reactor had at the start of the iteration by at most rate * dt, where   *)
(* dt is at least 0.01 s.                                                  *)
C16_SlewBound ==
    [][ \A r \in Reactors :
          (/\ pc = "control" /\ state = S_RUN /\ pc' /= "done"
           /\ ri <= Len(ReactorOrder) /\ r = ReactorOrder[ri]
           /\ enabled[r] /\ StaleKey(r) \notin alarms
           /\ reactor_values[r][1].pH /= None)
          => /\ dt >= 1
             /\ co2_cmd[r] = reactor_values[r][1].co2_cmd
             /\ air_cmd[r] = reactor_values[r][1].air_cmd
             /\ Abs(co2_cmd'[r] - reactor_values[r][1].co2_cmd)
                   <= CO2_RATE_LIMIT_PER_S * dt * 100
             /\ Abs(air_cmd'[r] - reactor_values[r][1].air_cmd)
                   <= AIR_RATE_LIMIT_PER_S * dt * 100 ]_vars

(* Both limits binding in one iteration: a CO2 command and an AIR command  *)
(* that moved by exactly rate * dt                                         *)
C16_Witness ==
    /\ state = S_RUN
    /\ pc = "dash"
    /\ \E r \in Reactors :
          /\ <<r, "cmd">> \in mfc_writes
          /\ co2_cmd[r] = reactor_values[r][1].co2_cmd + CO2_RATE_LIMIT_PER_S * dt * 100
    /\ \E q \in Reactors :
          /\ <<q, "cmd">> \in mfc_writes
          /\ reactor_values[q][1].air_cmd >= AIR_MIN
          /\ air_cmd[q] = reactor_values[q][1].air_cmd + AIR_RATE_LIMIT_PER_S * dt * 100

(* C17: every device is read at most 6 times per iteration; a readline     *)
(* either stays on the device or ends its draining for this iteration and  *)
(* goes on to the next device; a read that raises puts the read alarm in   *)
(* the alarm set, changes no channel map and goes on to the next device;   *)
(* and every iteration starts draining again at the first device.          *)
C17_BoundedDrainIsolation ==
    [][ /\ (pc = "read" /\ pc' = "read" /\ idx < Len(mm44_list))
            => /\ nread < 6 /\ nread' < 6
               /\ \/ idx' = idx /\ nread' = nread + 1
                  \/ idx' = idx + 1 /\ nread' = 0
               /\ (read_failed' /\ ~read_failed)
                     => /\ Global("MM44_READ_FAIL") \in alarms'
                        /\ idx' = idx + 1
                        /\ mm44_data' = mm44_data
        /\ (pc = "top" /\ pc' = "read") => (idx' = 0 /\ nread' = 0) ]_vars

(* Second iteration after a read alarm: device 0 delivered a line and then *)
(* raised, and device 1 has been read and parsed after that.               *)
C17_Witness ==
    /\ iter >= 1
    /\ snapshot /= None
    /\ Global("MM44_READ_FAIL") \in snapshot[1].alarms
    /\ pc = "read"
    /\ read_failed
    /\ idx = 1
    /\ nread >= 1
    /\ {"R1", "R3"} \subseteq got_valid

(* C18: for a line of tokens the parser's result has an entry for channel *)
(* c exactly when some token c has at least two tokens after it and is    *)
(* directly followed by PH, DO or OD in any case; the entry is that of the *)
(* last such place, with kind pH for PH and DO for DO and OD, and an       *)
(* absent value when the value token is not a number.  The entries of the  *)
(* result overwrite those of the device's channel map, every other entry   *)
(* stays, and an empty or failed read leaves the channel map as it was.    *)
C18_ParserCharacterisation ==
    p_res /= None =>
        LET parts == p_raw
            Hits(c) == {i \in 1..Len(parts) :
                          /\ parts[i] = c
                          /\ i + 2 <= Len(parts)
                          /\ parts[i + 1] \in {"PH", "ph", "DO", "do", "OD", "od"}}
            Last(c) == CHOOSE i \in Hits(c) : \A j \in Hits(c) : j <= i
            Expected(c) ==
                IF Hits(c) = {} THEN None
                ELSE Some([type |-> IF parts[Last(c) + 1] \in {"PH", "ph"} THEN "pH" ELSE "DO",
                           value |-> IF parts[Last(c) + 2] = "7.80" THEN Some(780) ELSE None])
            before(c) == IF p_map = None THEN None ELSE p_map[1][c]
            after(c) == IF p_res[1] = None THEN None ELSE p_res[1][1][c]
        IN IF p_raw = <<"exc">> \/ p_raw = <<>>
           THEN p_res[1] = p_map
           ELSE /\ \A c \in Channels : parse_mm44_line(parts)[c] = Expected(c)
                /\ \A c \in Channels :
                      after(c) = IF Expected(c) /= None THEN Expected(c) ELSE before(c)
                /\ p_res[1] = None <=> (p_map = None /\ \A c \in Channels : Hits(c) = {})

(* C1 met twice, the second time at the last place that still has two      *)
(* tokens after it: the later entry replaces both the earlier one and the  *)
(* map's, and the map's C3 stays.                                          *)
C18_Witness ==
    /\ p_raw = <<"C1", "ph", "C1", "OD", "XX">>
    /\ p_map /= None
    /\ p_res /= None
    /\ p_res[1] /= None
    /\ p_res[1][1]["C1"] = Some([type |-> "DO", value |-> None])
    /\ p_res[1][1]["C3"] = p_map[1]["C3"]
    /\ p_res[1][1]["C2"] = None

(* C19: the snapshot written in an iteration carries, for every reactor,   *)
(* the AIR and CO2 commands the reactor has when the snapshot is written,  *)
(* that is after the iteration's control block.                            *)
C19_SnapshotCurrent ==
    (pc = "sleep" /\ snapshot /= None)
        => \A r \in Reactors :
              /\ snapshot[1].reactors[r] /= None
              /\ snapshot[1].reactors[r][1].air_cmd = air_cmd[r]
              /\ snapshot[1].reactors[r][1].co2_cmd = co2_cmd[r]

(* C20: a RUN control step for a reactor that is not forced safe and whose *)
(* pH is absent or outside [0, 14] leaves the reactor's commands and PID   *)
(* state unchanged and issues no actuator write.                           *)
C20_ControlOnlyOnValidPh ==
    [][ \A r \in Reactors :
          (/\ pc = "control" /\ state = S_RUN /\ pc' /= "done"
           /\ ri <= Len(ReactorOrder) /\ r = ReactorOrder[ri]
           /\ enabled[r] /\ StaleKey(r) \notin alarms
           /\ ~(/\ reactor_values[r][1].pH /= None
                /\ 0 <= reactor_values[r][1].pH[1]
                /\ reactor_values[r][1].pH[1] <= 1400))
          => /\ co2_cmd'[r] = co2_cmd[r]
             /\ air_cmd'[r] = air_cmd[r]
             /\ pids'[r] = pids[r]
             /\ mfc_writes' = mfc_writes ]_vars

====
